--------------------------- MODULE Spec2Model ---------------------------
(***************************************************************************)
(* A model of parse.py, the IPPcode24 front end: the command line, the     *)
(* reading of the input, the header scan, the tokenizer, the grammar       *)
(* dispatch with the operand validators, the instruction builder and the   *)
(* writing of the XML document.                                            *)
(*                                                                         *)
(* Text is modelled character by character: a Python str is a sequence of  *)
(* one-character strings, so that the regular expressions, str.strip,      *)
(* str.split, str.upper and int() are computed as the program computes     *)
(* them.                                                                   *)
(***************************************************************************)
EXTENDS Naturals, Integers, Sequences, FiniteSets, TLC

VARIABLES
    argv,             \* sys.argv: the program's name, then its arguments
    pc,               \* where the run stands
    input,            \* the state of the fileinput object
    lines,            \* list(lines): the lines read, each a str
    header_line_idx,  \* parse_program's header_line_idx (1-based; -1: none)
    line_idx,         \* the index in lines of the line the loop takes next
    order,            \* parse_program's order counter
    instructions,     \* the Instructions the generator has yielded
    document,         \* the minidom document under construction
    stdout,           \* what has been written to standard output
    exc,              \* the exception propagating out of main()
    exit_code,        \* the argument of exit(); -1 while running
    sym_input,        \* the token handed to parse_symbol
    sym_outcome       \* what parse_symbol returned or raised

vars == <<argv, pc, input, lines, header_line_idx, line_idx, order, instructions,
          document, stdout, exc, exit_code, sym_input, sym_outcome>>

---------------------------------------------------------------------------
(* Characters and the str methods the program uses.                        *)

LowerLetters == <<"a", "b", "c", "d", "e", "f", "g", "h", "i", "j", "k", "l", "m",
                  "n", "o", "p", "q", "r", "s", "t", "u", "v", "w", "x", "y", "z">>

UpperLetters == <<"A", "B", "C", "D", "E", "F", "G", "H", "I", "J", "K", "L", "M",
                  "N", "O", "P", "Q", "R", "S", "T", "U", "V", "W", "X", "Y", "Z">>

Range(s) == {s[i] : i \in 1..Len(s)}

Letters == Range(LowerLetters) \cup Range(UpperLetters)

DecDigits == {"0", "1", "2", "3", "4", "5", "6", "7", "8", "9"}

OctDigits == {"0", "1", "2", "3", "4", "5", "6", "7"}

HexDigits == DecDigits \cup {"a", "b", "c", "d", "e", "f", "A", "B", "C", "D", "E", "F"}

\* The control character U+0001, a member of the class \x00-\x1F that is
\* not whitespace.
SOH == "<U+0001>"

\* str.isspace(): what str.strip() and str.split() take for whitespace.
PyWhitespace == {" ", "\t", "\n", "\r", "\f"}

\* The class [^\S\r\n] of the header expressions: whitespace but CR and LF.
InlineWhitespace == PyWhitespace \ {"\r", "\n"}

\* The class [ \t\r\n\x00-\x1F#\\] that the string and label expressions
\* exclude.
ExcludedChars == {" ", "\t", "\r", "\n", "\f", SOH, "#", "\\"}

Min(S) == CHOOSE m \in S : \A n \in S : m <= n

Max(S) == CHOOSE m \in S : \A n \in S : m >= n

\* s[i:] and s[:i-1] with 1-based i.
From(s, i) == SubSeq(s, i, Len(s))

Upto(s, i) == SubSeq(s, 1, i)

\* str.startswith(prefix)
startswith(s, prefix) ==
    /\ Len(s) >= Len(prefix)
    /\ SubSeq(s, 1, Len(prefix)) = prefix

\* Whether `what` occurs in s at position i.
OccursAt(s, i, what) ==
    /\ i >= 1
    /\ i + Len(what) - 1 <= Len(s)
    /\ SubSeq(s, i, i + Len(what) - 1) = what

\* The `in` operator on strings: what in s.
contains(s, what) == \E i \in 1..(Len(s) + 1) : OccursAt(s, i, what)

\* str.upper() and str.lower() on the letters a-z, A-Z; every other character
\* of the model's alphabet is left as it is.
upper_char(c) ==
    IF c \in Range(LowerLetters)
    THEN UpperLetters[CHOOSE i \in 1..26 : LowerLetters[i] = c]
    ELSE c

lower_char(c) ==
    IF c \in Range(UpperLetters)
    THEN LowerLetters[CHOOSE i \in 1..26 : UpperLetters[i] = c]
    ELSE c

upper(s) == [i \in 1..Len(s) |-> upper_char(s[i])]

lower(s) == [i \in 1..Len(s) |-> lower_char(s[i])]

\* str.strip(): leading and trailing whitespace removed.
strip(s) ==
    LET keep == {i \in 1..Len(s) : s[i] \notin PyWhitespace}
    IN  IF keep = {} THEN <<>> ELSE SubSeq(s, Min(keep), Max(keep))

\* str.split(): the maximal runs of non-whitespace characters, in order.
RECURSIVE split(_)
split(s) ==
    IF s = <<>> THEN <<>>
    ELSE IF Head(s) \in PyWhitespace THEN split(Tail(s))
    ELSE LET stops == {i \in 1..Len(s) : s[i] \in PyWhitespace}
             n     == IF stops = {} THEN Len(s) ELSE Min(stops) - 1
         IN  <<SubSeq(s, 1, n)>> \o split(From(s, n + 1))

\* The anchor $ of re.match without re.MULTILINE: the end of the string, or
\* the place before a newline that is the string's last character.
AtDollar(s, i) ==
    \/ i = Len(s) + 1
    \/ i = Len(s) /\ s[i] = "\n"

\* The first position at or after i whose character is not in `class`
\* (Len(s) + 1 when there is none): where a greedy class* stops.
SkipClass(s, i, class) ==
    LET stops == {j \in i..Len(s) : s[j] \notin class}
    IN  IF stops = {} THEN Len(s) + 1 ELSE Min(stops)

---------------------------------------------------------------------------
(* Exceptions and the values the validators build.                         *)

NoText == <<>>

\* No exception raised.
NoException == [type |-> "none", exit_code |-> 0, message |-> ""]

\* ParseError(message, code)
ParseError(message, code) ==
    [type |-> "ParseError", exit_code |-> code, message |-> message]

\* SourceError(message): a ParseError whose code is 23.
SourceError(message) ==
    [type |-> "SourceError", exit_code |-> 23, message |-> message]

\* An exception that is no ParseError (OSError, UnicodeDecodeError,
\* RuntimeError): it carries no exit code.
OtherException(type) == [type |-> type, exit_code |-> 0, message |-> ""]

\* The outcome of calling a validator: the Argument it returns, or the
\* exception it raises.
Returned(arg) == [ok |-> TRUE, arg |-> arg, exc |-> NoException]

Raised(e) == [ok |-> FALSE, arg |-> [ipptype |-> NoText, text |-> NoText], exc |-> e]

\* Argument(ipptype, text)
Argument(ipptype, text) == [ipptype |-> ipptype, text |-> text]

---------------------------------------------------------------------------
(* remove_comment and tokenize_line.                                       *)

\* str.find('#'): the first position of the character, 0 when it is absent
\* (the program's -1).
find(line, c) ==
    LET at == {i \in 1..Len(line) : line[i] = c}
    IN  IF at = {} THEN 0 ELSE Min(at)

remove_comment(line) ==
    LET idx == find(line, "#")
    IN  IF idx = 0 THEN line ELSE Upto(line, idx - 1)

\* parts[0] = parts[0].upper() when there is a part.
upper_first(parts) ==
    IF Len(parts) > 0
    THEN [i \in 1..Len(parts) |-> IF i = 1 THEN upper(parts[1]) ELSE parts[i]]
    ELSE parts

tokenize_line(line) == upper_first(split(strip(remove_comment(line))))

---------------------------------------------------------------------------
(* The operand validators.                                                 *)

FramePrefixes == {<<"L", "F">>, <<"T", "F">>, <<"G", "F">>}

IdentSpecials == {"_", "$", "&", "%", "*", "!", "?"}

IdentStart == Letters \cup IdentSpecials

IdentRest == Letters \cup DecDigits \cup IdentSpecials

\* re.match('^(LF|TF|GF)@([a-zA-Z_$&%*!?][a-zA-Z0-9_$&%*!?]*)$', s)
variable_matches(s) ==
    /\ Len(s) >= 4
    /\ SubSeq(s, 1, 2) \in FramePrefixes
    /\ s[3] = "@"
    /\ s[4] \in IdentStart
    /\ AtDollar(s, SkipClass(s, 5, IdentRest))

parse_variable(variable_str) ==
    IF ~variable_matches(variable_str)
    THEN Raised(SourceError("Promenna ve spatnem formatu"))
    ELSE Returned(Argument(<<"v", "a", "r">>, variable_str))

\* int(s, base) for base 8, 10 and 16: whether the conversion succeeds.
\* After surrounding whitespace is dropped: an optional sign, the base's
\* prefix (0x or 0o, either case) when it is there, then digits of the
\* base, where single underscores may stand between digits and one may
\* follow the prefix.
base_digits(base) ==
    CASE base = 16 -> HexDigits
      [] base = 8  -> OctDigits
      [] OTHER     -> DecDigits

\* The position after the optional sign.
after_sign(t) == IF t /= <<>> /\ t[1] \in {"+", "-"} THEN 2 ELSE 1

has_base_prefix(t, i, base) ==
    \/ base = 16 /\ (OccursAt(t, i, <<"0", "x">>) \/ OccursAt(t, i, <<"0", "X">>))
    \/ base = 8  /\ (OccursAt(t, i, <<"0", "o">>) \/ OccursAt(t, i, <<"0", "O">>))

\* The position after the prefix and the one underscore that may follow it.
after_prefix(t, i, base) ==
    IF ~has_base_prefix(t, i, base) THEN i
    ELSE IF i + 2 <= Len(t) /\ t[i + 2] = "_" THEN i + 3
    ELSE i + 2

digits_convert(body, digits) ==
    /\ body /= <<>>
    /\ body[1] /= "_"
    /\ body[Len(body)] /= "_"
    /\ \A n \in 1..Len(body) : body[n] \in digits \cup {"_"}
    /\ \A n \in 1..(Len(body) - 1) : ~(body[n] = "_" /\ body[n + 1] = "_")

stripped_converts(t, base) ==
    digits_convert(From(t, after_prefix(t, after_sign(t), base)), base_digits(base))

int_converts(s, base) == stripped_converts(strip(s), base)

is_ippcode_integer(integer_str) ==
    IF contains(lower(integer_str), <<"0", "x">>) THEN int_converts(integer_str, 16)
    ELSE IF contains(lower(integer_str), <<"0", "o">>) THEN int_converts(integer_str, 8)
    ELSE int_converts(integer_str, 10)

\* Where the greedy repetition of ([^ \t\r\n\x00-\x1F#\\]|\\[0-9]{3}) that
\* starts at i stops.
RECURSIVE escaped_run_end(_, _)
escaped_run_end(s, i) ==
    IF i > Len(s) THEN i
    ELSE IF s[i] = "\\"
         THEN IF /\ i + 3 <= Len(s)
                 /\ \A n \in (i + 1)..(i + 3) : s[n] \in DecDigits
              THEN escaped_run_end(s, i + 4)
              ELSE i
         ELSE IF s[i] \notin ExcludedChars
              THEN escaped_run_end(s, i + 1)
              ELSE i

\* re.match(r'^([^ \t\r\n\x00-\x1F#\\]|\\[0-9]{3})*$', s)
string_matches(s) == AtDollar(s, escaped_run_end(s, 1))

\* re.match(r'^([^ \t\r\n\x00-\x1F#\\]|\\[0-9]{3})+$', s)
label_matches(s) ==
    /\ escaped_run_end(s, 1) > 1
    /\ AtDollar(s, escaped_run_end(s, 1))

LiteralTypes == <<<<"i", "n", "t">>, <<"b", "o", "o", "l">>, <<"s", "t", "r", "i", "n", "g">>, <<"n", "i", "l">>>>

NoGroups == [matched |-> FALSE, typestr |-> NoText, value |-> NoText]

\* Which alternative of (int|bool|string|nil) is followed by '@' at the
\* start of s: its index in LiteralTypes, 0 when none is.
literal_type_at_start(s) ==
    LET tags == {n \in 1..Len(LiteralTypes) : startswith(s, LiteralTypes[n] \o <<"@">>)}
    IN  IF tags = {} THEN 0 ELSE Min(tags)

\* Where the .* that starts at `start` stops: at the first newline, or at
\* the end.
dot_star_end(s, start) ==
    LET newl == {i \in start..Len(s) : s[i] = "\n"}
    IN  IF newl = {} THEN Len(s) + 1 ELSE Min(newl)

groups_upto(s, typestr, stop) ==
    IF AtDollar(s, stop)
    THEN [matched |-> TRUE, typestr |-> typestr,
          value |-> SubSeq(s, Len(typestr) + 2, stop - 1)]
    ELSE NoGroups

\* re.match('^(int|bool|string|nil)@(.*)$', s): the two groups, or no match.
literal_groups(s) ==
    IF literal_type_at_start(s) = 0 THEN NoGroups
    ELSE groups_upto(s, LiteralTypes[literal_type_at_start(s)],
                     dot_star_end(s, Len(LiteralTypes[literal_type_at_start(s)]) + 2))

\* parse_literal after the match: the checks of the value by type.
literal_of_groups(m) ==
    IF ~m.matched
    THEN Raised(SourceError("Konstanta ve spatnem formatu"))
    ELSE IF m.typestr = <<"i", "n", "t">> /\ ~is_ippcode_integer(m.value)
    THEN Raised(SourceError("Celociselna konstanta ve spatnem formatu"))
    ELSE IF m.typestr = <<"b", "o", "o", "l">> /\ m.value \notin {<<"t", "r", "u", "e">>, <<"f", "a", "l", "s", "e">>}
    THEN Raised(SourceError("Booleanska konstanta ve spatnem formatu"))
    ELSE IF m.typestr = <<"s", "t", "r", "i", "n", "g">> /\ ~string_matches(m.value)
    THEN Raised(SourceError("Retezcova konstanta ve spatnem formatu"))
    ELSE IF m.typestr = <<"n", "i", "l">> /\ m.value /= <<"n", "i", "l">>
    THEN Raised(SourceError("Nil konstanta ve spatnem formatu"))
    ELSE Returned(Argument(m.typestr, m.value))

parse_literal(literal_str) == literal_of_groups(literal_groups(literal_str))

parse_label(label_str) ==
    IF ~label_matches(label_str)
    THEN Raised(SourceError("Navesti ve spatnem formatu"))
    ELSE Returned(Argument(<<"l", "a", "b", "l", "e">>, label_str))

is_possibly_literal(literal_str) ==
    \E n \in 1..Len(LiteralTypes) : startswith(literal_str, LiteralTypes[n])

is_possibly_variable(variable_str) ==
    \E t \in FramePrefixes : startswith(variable_str, t)

\* A dispatch that reports every rejected symbol alike.
parse_symbol_one_error(symbol_str) ==
    IF is_possibly_literal(symbol_str) /\ parse_literal(symbol_str).ok
    THEN parse_literal(symbol_str)
    ELSE IF is_possibly_variable(symbol_str) /\ parse_variable(symbol_str).ok
    THEN parse_variable(symbol_str)
    ELSE Raised(SourceError("Symbol ve spatnem formatu"))

parse_symbol(symbol_str) ==
    IF is_possibly_literal(symbol_str) THEN parse_literal(symbol_str)
    ELSE IF is_possibly_variable(symbol_str) THEN parse_variable(symbol_str)
    ELSE Raised(SourceError("Symbol ve spatnem formatu"))

parse_type(ipptype_str) ==
    IF ipptype_str \notin {<<"i", "n", "t">>, <<"s", "t", "r", "i", "n", "g">>, <<"b", "o", "o", "l">>}
    THEN Raised(SourceError("neznamy typ"))
    ELSE Returned(Argument(<<"t", "y", "p", "e">>, ipptype_str))

---------------------------------------------------------------------------
(* find_header.                                                            *)

HEADER == <<".", "I", "P", "P", "c", "o", "d", "e", "2", "4">>

\* The tail (#.*)?$ of both header expressions at position i: the anchor
\* right there, or a comment that runs to the anchor (the dot matches no
\* newline).
comment_tail_matches(s, i) ==
    \/ AtDollar(s, i)
    \/ /\ i <= Len(s)
       /\ s[i] = "#"
       /\ LET newl == {j \in (i + 1)..Len(s) : s[j] = "\n"}
          IN  AtDollar(s, IF newl = {} THEN Len(s) + 1 ELSE Min(newl))

\* re.match(r'^[^\S\r\n]*(\.IPPcode24)[^\S\r\n]*(#.*)?$', line)
header_matches(line) ==
    LET i == SkipClass(line, 1, InlineWhitespace)
    IN  /\ OccursAt(line, i, HEADER)
        /\ comment_tail_matches(line, SkipClass(line, i + Len(HEADER), InlineWhitespace))

\* re.match(r'^[^\S\r\n]*(#.*)?$', line)
blank_or_comment_matches(line) ==
    comment_tail_matches(line, SkipClass(line, 1, InlineWhitespace))

\* A scan that looks at the first line only.
first_line_only(ls) == IF ls = <<>> THEN 0 ELSE 1

\* The first line at which the loop of find_header returns: a header, or a
\* line that is not blank or comment-only (0: the loop runs to its end).
first_decisive_line(ls) ==
    LET stops == {i \in 1..Len(ls) :
                    header_matches(ls[i]) \/ ~blank_or_comment_matches(ls[i])}
    IN  IF stops = {} THEN 0 ELSE Min(stops)

header_index_or_fail(ls, i) ==
    IF i = 0 THEN -1
    ELSE IF header_matches(ls[i]) THEN i
    ELSE -1

\* The index (1-based) of the header line, -1 when the scan fails.
find_header(ls) == header_index_or_fail(ls, first_decisive_line(ls))

---------------------------------------------------------------------------
(* parse_program: the match statement over the tokens of one line.         *)

OPCODES ==
    <<<<"C", "R", "E", "A", "T", "E", "F", "R", "A", "M", "E">>, <<"P", "U", "S", "H", "F", "R", "A", "M", "E">>, <<"P", "O", "P", "F", "R", "A", "M", "E">>, <<"R", "E", "T", "U", "R", "N">>, <<"B", "R", "E", "A", "K">>,
      <<"C", "A", "L", "L">>, <<"L", "A", "B", "E", "L">>, <<"J", "U", "M", "P">>, <<"M", "O", "V", "E">>, <<"I", "N", "T", "2", "C", "H", "A", "R">>, <<"S", "T", "R", "L", "E", "N">>, <<"T", "Y", "P", "E">>,
      <<"M", "O", "V", "E">>, <<"I", "N", "T", "2", "C", "H", "A", "R">>, <<"S", "T", "R", "L", "E", "N">>, <<"T", "Y", "P", "E">>, <<"A", "D", "D">>, <<"S", "U", "B">>, <<"M", "U", "L">>,
      <<"I", "M", "U", "L">>, <<"D", "I", "V">>, <<"I", "D", "I", "V">>, <<"L", "T">>, <<"G", "T">>, <<"E", "Q">>, <<"A", "N", "D">>, <<"O", "R">>, <<"N", "O", "T">>,
      <<"C", "O", "N", "C", "A", "T">>, <<"G", "E", "T", "C", "H", "A", "R">>, <<"S", "E", "T", "C", "H", "A", "R">>, <<"S", "T", "R", "I", "2", "I", "N", "T">>, <<"P", "U", "S", "H", "S">>, <<"W", "R", "I", "T", "E">>,
      <<"D", "P", "R", "I", "N", "T">>, <<"E", "X", "I", "T">>, <<"P", "O", "P", "S">>, <<"D", "E", "F", "V", "A", "R">>, <<"R", "E", "A", "D">>, <<"J", "U", "M", "P", "I", "F", "E", "Q">>, <<"J", "U", "M", "P", "I", "F", "N", "E", "Q">>>>

\* The opcode alternatives of the eight case patterns, in the order of the
\* match statement.
CaseNoOperand == {<<"C", "R", "E", "A", "T", "E", "F", "R", "A", "M", "E">>, <<"P", "U", "S", "H", "F", "R", "A", "M", "E">>, <<"P", "O", "P", "F", "R", "A", "M", "E">>, <<"R", "E", "T", "U", "R", "N">>, <<"B", "R", "E", "A", "K">>}

CaseLabel == {<<"C", "A", "L", "L">>, <<"L", "A", "B", "E", "L">>, <<"J", "U", "M", "P">>}

CaseVarSymb == {<<"M", "O", "V", "E">>, <<"I", "N", "T", "2", "C", "H", "A", "R">>, <<"S", "T", "R", "L", "E", "N">>, <<"T", "Y", "P", "E">>}

CaseVarSymbSymb ==
    {<<"A", "D", "D">>, <<"S", "U", "B">>, <<"M", "U", "L">>, <<"I", "M", "U", "L">>, <<"D", "I", "V">>, <<"I", "D", "I", "V">>, <<"L", "T">>, <<"G", "T">>, <<"E", "Q">>,
     <<"A", "N", "D">>, <<"O", "R">>, <<"N", "O", "T">>, <<"C", "O", "N", "C", "A", "T">>, <<"G", "E", "T", "C", "H", "A", "R">>, <<"S", "E", "T", "C", "H", "A", "R">>, <<"S", "T", "R", "I", "2", "I", "N", "T">>}

CaseSymb == {<<"P", "U", "S", "H", "S">>, <<"W", "R", "I", "T", "E">>, <<"D", "P", "R", "I", "N", "T">>, <<"E", "X", "I", "T">>}

CaseVar == {<<"P", "O", "P", "S">>, <<"D", "E", "F", "V", "A", "R">>}

CaseVarType == {<<"R", "E", "A", "D">>}

CaseLabelSymbSymb == {<<"J", "U", "M", "P", "I", "F", "E", "Q">>, <<"J", "U", "M", "P", "I", "F", "N", "E", "Q">>}

\* Instruction(order, opcode, *args)
Instruction(n, opcode, args) == [order |-> n, opcode |-> opcode, args |-> args]

NoInstruction == Instruction(0, NoText, <<>>)

\* What one pass of the loop body does: yield an Instruction, continue
\* with the next line, or raise.
Yield(ins) == [kind |-> "yield", instruction |-> ins, exc |-> NoException]

Continue == [kind |-> "continue", instruction |-> NoInstruction, exc |-> NoException]

Raise(e) == [kind |-> "raise", instruction |-> NoInstruction, exc |-> e]

\* An evaluation whose last failing operand decides.
raising_operand_last(failed) == Max(failed)

\* The operand whose exception propagates out of the call
\* Instruction(order, opcode, v1(t1), v2(t2), ...): Python evaluates the
\* arguments left to right and the first exception ends the evaluation.
raising_operand(failed) == Min(failed)

\* yield Instruction(order, opcode, v1(t1), v2(t2), ...), `outcomes` being
\* what the validators return or raise, in argument order.  The
\* constructor raises RuntimeError for more than 3 arguments.
yield_instruction(n, opcode, outcomes) ==
    LET failed == {i \in 1..Len(outcomes) : ~outcomes[i].ok}
    IN  IF failed /= {} THEN Raise(outcomes[raising_operand(failed)].exc)
        ELSE IF Len(outcomes) > 3 THEN Raise(OtherException("RuntimeError"))
        ELSE Yield(Instruction(n, opcode,
                               [i \in 1..Len(outcomes) |-> outcomes[i].arg]))

case_no_operand(n, tokens) == yield_instruction(n, tokens[1], <<>>)

case_label(n, tokens) ==
    yield_instruction(n, tokens[1], <<parse_label(tokens[2])>>)

case_var_symb(n, tokens) ==
    yield_instruction(n, tokens[1],
                      <<parse_variable(tokens[2]), parse_symbol(tokens[3])>>)

case_var_symb_symb(n, tokens) ==
    yield_instruction(n, tokens[1],
                      <<parse_variable(tokens[2]), parse_symbol(tokens[3]),
                        parse_symbol(tokens[4])>>)

case_symb(n, tokens) ==
    yield_instruction(n, tokens[1], <<parse_symbol(tokens[2])>>)

case_var(n, tokens) ==
    yield_instruction(n, tokens[1], <<parse_variable(tokens[2])>>)

\* A READ that loses its variable operand.
case_read_without_variable(n, tokens) ==
    yield_instruction(n, <<"R", "E", "A", "D">>, <<parse_type(tokens[3])>>)

case_read(n, tokens) ==
    yield_instruction(n, <<"R", "E", "A", "D">>,
                      <<parse_variable(tokens[2]), parse_type(tokens[3])>>)

case_label_symb_symb(n, tokens) ==
    yield_instruction(n, tokens[1],
                      <<parse_label(tokens[2]), parse_symbol(tokens[3]),
                        parse_symbol(tokens[4])>>)

\* A default case that takes every unmatched line for a wrong operand count.
case_default_operand_count(tokens) == Raise(SourceError("Spatny pocet argumentu"))

\* case _: the opcode is unknown, or known with another number of operands.
case_default(tokens) ==
    IF tokens[1] \notin Range(OPCODES)
    THEN Raise(ParseError("Neznamy nebo chybny operacni kod", 22))
    ELSE Raise(SourceError("Spatny pocet argumentu"))

\* match tokens: the first case whose pattern fits.
match_tokens(n, tokens) ==
    CASE Len(tokens) = 1 /\ tokens[1] \in CaseNoOperand     -> case_no_operand(n, tokens)
      [] Len(tokens) = 2 /\ tokens[1] \in CaseLabel         -> case_label(n, tokens)
      [] Len(tokens) = 3 /\ tokens[1] \in CaseVarSymb       -> case_var_symb(n, tokens)
      [] Len(tokens) = 4 /\ tokens[1] \in CaseVarSymbSymb   -> case_var_symb_symb(n, tokens)
      [] Len(tokens) = 2 /\ tokens[1] \in CaseSymb          -> case_symb(n, tokens)
      [] Len(tokens) = 2 /\ tokens[1] \in CaseVar           -> case_var(n, tokens)
      [] Len(tokens) = 3 /\ tokens[1] \in CaseVarType       -> case_read(n, tokens)
      [] Len(tokens) = 4 /\ tokens[1] \in CaseLabelSymbSymb -> case_label_symb_symb(n, tokens)
      [] tokens = <<>>                                      -> Continue
      [] OTHER                                              -> case_default(tokens)

\* The counter of a loop that counts every line, the empty ones too.
order_after_any_line(n, outcome) == n + 1

\* The loop's counter after the body has run for a line: order += 1 is
\* skipped by the continue of the empty case.
order_after(n, outcome) == IF outcome.kind = "continue" THEN n ELSE n + 1

---------------------------------------------------------------------------
(* instructions_to_xml and Document.writexml.                              *)

\* str(n) of a non-negative int: its decimal digits.
DigitChars == <<"0", "1", "2", "3", "4", "5", "6", "7", "8", "9">>

RECURSIVE str(_)
str(n) ==
    IF n < 10 THEN <<DigitChars[n + 1]>>
    ELSE str(n \div 10) \o <<DigitChars[(n % 10) + 1]>>

\* The arg{arg_idx} element of an argument.
arg_element(arg_idx, arg) ==
    [tag |-> <<"a", "r", "g">> \o str(arg_idx), type |-> arg.ipptype, text |-> arg.text]

\* The instruction element built for one yielded Instruction.
instruction_element(instruction) ==
    [tag      |-> <<"i", "n", "s", "t", "r", "u", "c", "t", "i", "o", "n">>,
     order    |-> str(instruction.order),
     opcode   |-> instruction.opcode,
     children |-> [i \in 1..Len(instruction.args) |->
                     arg_element(i, instruction.args[i])]]

\* The document before the generator is iterated: not created, and created
\* with its root element `program`.
NoDocument == [root |-> FALSE, elements |-> <<>>]

NewDocument == [root |-> TRUE, elements |-> <<>>]

\* root.appendChild(ins_elem)
appendChild(doc, ins_elem) == [doc EXCEPT !.elements = Append(@, ins_elem)]

\* Standard output: the usage text, the XML declaration with the opening
\* of the root element, and the instruction elements written so far.
EmptyStdout == [help |-> FALSE, xml |-> FALSE, elements |-> <<>>]

\* A loop body that writes each element as it is built.
stdout_streamed(out, ins_elem) ==
    [out EXCEPT !.xml = TRUE, !.elements = Append(@, ins_elem)]

\* What the loop body of instructions_to_xml leaves on standard output
\* when it has taken an instruction: nothing, the tree is in memory.
stdout_after_append(out, ins_elem) == out

---------------------------------------------------------------------------
(* The inputs the runs are checked on.                                     *)

\* sys.argv[0]
PROGRAM == "parse.py"

MaxLines == 3

MaxOrderLines == 4

MaxOperands == 4

MaxHeaderAtoms == 4

MaxSymbolAtoms == 3

SeqsUpTo(S, n) == UNION {[1..k -> S] : k \in 0..n}

\* The concatenation of a sequence of strings, `sep` between them.
RECURSIVE join(_, _)
join(sep, parts) ==
    IF parts = <<>> THEN <<>>
    ELSE IF Len(parts) = 1 THEN parts[1]
    ELSE parts[1] \o sep \o join(sep, Tail(parts))

\* The lines a text file gives: every line ends with its newline, but the
\* last one, which ends with it or not.
AsLines(bodies, final_newline) ==
    [i \in 1..Len(bodies) |->
        IF i < Len(bodies) \/ final_newline THEN bodies[i] \o <<"\n">>
        ELSE bodies[i]]

AllArgv ==
    {<<PROGRAM>>, <<PROGRAM, "--help">>, <<PROGRAM, "prog.src">>,
     <<PROGRAM, "--help", "prog.src">>, <<PROGRAM, "a.src", "b.src">>}

StdinArgv ==
    {<<PROGRAM>>, <<PROGRAM, "--help">>, <<PROGRAM, "a.src", "b.src">>}

\* Whole programs: up to MaxLines lines, each one of these.
ProgramLines ==
    {<<>>,                                \* blank
     <<"\r">>,                              \* the CR of a blank CRLF line
     <<" ", " ", "#", " ", "c", "o", "m", "m", "e", "n", "t">>,                     \* comment only
     <<".", "I", "P", "P", "c", "o", "d", "e", "2", "4">>,                      \* header
     <<"\t", ".", "I", "P", "P", "c", "o", "d", "e", "2", "4", " ", "#", ".", "I", "P", "P", "c", "o", "d", "e", "2", "4">>,        \* header, indented, with a comment
     <<"d", "e", "f", "v", "a", "r", " ", "G", "F", "@", "x">>,                     \* lower-case opcode
     <<"J", "U", "M", "P", "I", "F", "E", "Q", " ", "e", "n", "d", " ", "G", "F", "@", "x", " ", "n", "i", "l", "@", "n", "i", "l", " ", "#", " ", "c">>,   \* label, variable, literal, comment
     <<"R", "E", "A", "D", " ", "G", "F", "@", "x", " ", "i", "n", "t">>,                   \* type name
     <<"F", "O", "O", " ", "G", "F", "@", "1", "x">>,                       \* unknown opcode, bad operand
     <<"A", "D", "D", " ", "G", "F", "@", "1", "x", " ", "i", "n", "t", "@", "1">>,                 \* wrong arity, bad operand
     <<"M", "O", "V", "E", " ", "G", "F", "@", "1", "x", " ", "i", "n", "t", "@", "z">>}                \* two bad operands

ProgramInputs ==
    {AsLines(bodies, nl) : bodies \in SeqsUpTo(ProgramLines, MaxLines), nl \in BOOLEAN}

\* Programs with an accepted header: the header after nothing, a blank
\* line or a comment line, then up to MaxOrderLines lines, each one of these.
OrderLines ==
    {<<>>,                                \* blank
     <<" ", "\t", "#", " ", "b", "r", "e", "a", "k">>,                      \* comment only
     <<"b", "r", "e", "a", "k">>,                           \* no operand
     <<"D", "E", "F", "V", "A", "R", " ", "G", "F", "@", "x", " ", "#", " ", "x">>,                 \* one operand and a comment
     <<"F", "O", "O">>}                             \* unknown opcode

OrderLeading == {<<>>, <<<<>>>>, <<<<"#", " ", ".", "I", "P", "P", "c", "o", "d", "e", "2", "4">>>>}

OrderInputs ==
    {AsLines(pre \o <<HEADER>> \o bodies, TRUE) :
        pre \in OrderLeading, bodies \in SeqsUpTo(OrderLines, MaxOrderLines)}

\* One line after a header: an opcode token and up to MaxOperands operands.
OpcodeTokens ==
    Range(OPCODES) \cup
    {<<"m", "o", "v", "e">>, <<"A", "d", "d">>, <<"j", "u", "m", "p", "I", "f", "E", "q">>, <<"F", "O", "O">>, <<"M", "O", "V">>, <<"A", "D", "D", "S">>, <<"I", "N", "T", "2", "F", "L", "O", "A", "T">>,
     <<".", "I", "P", "P", "C", "O", "D", "E", "2", "4">>, <<"G", "F", "@", "x">>}

OperandTokens == {<<"G", "F", "@", "x">>, <<"b", "o", "o", "l", "@", "t", "r", "u", "e">>, <<"i", "n", "t">>, <<"L", "\\", "1">>}

LineInputs ==
    {AsLines(<<HEADER, join(<<" ">>, <<op>> \o operands)>>, TRUE) :
        op \in OpcodeTokens, operands \in SeqsUpTo(OperandTokens, MaxOperands)}

\* Header candidates: a line of up to MaxHeaderAtoms of these, after
\* nothing, a blank line or a comment line, and before nothing or an
\* instruction.
HeaderAtoms == {<<" ">>, <<"\t">>, <<"\r">>, <<"#">>, <<"x">>, HEADER}

HeaderLeading == {<<>>, <<<<>>>>, <<<<" ", "\t", "#", " ", ".", "I", "P", "P", "c", "o", "d", "e", "2", "4">>>>}

HeaderInputs ==
    {AsLines(pre \o <<join(<<>>, atoms)>>, FALSE) :
        pre \in HeaderLeading, atoms \in SeqsUpTo(HeaderAtoms, MaxHeaderAtoms)}
    \cup
    {AsLines(pre \o <<join(<<>>, atoms), <<"B", "R", "E", "A", "K">>>>, TRUE) :
        pre \in HeaderLeading, atoms \in SeqsUpTo(HeaderAtoms, MaxHeaderAtoms)}

\* Symbol tokens: a prefix and up to MaxSymbolAtoms of these.  A token has
\* no whitespace and no '#': str.split and remove_comment leave none.
SymbolPrefixes ==
    {<<>>, <<"i", "n", "t", "@">>, <<"b", "o", "o", "l", "@">>, <<"s", "t", "r", "i", "n", "g", "@">>, <<"n", "i", "l", "@">>, <<"i", "n", "t">>, <<"n", "i", "l", "G", "F", "@">>,
     <<"G", "F", "@">>, <<"L", "F", "@">>, <<"T", "F", "@">>, <<"G", "F">>, <<"X", "F", "@">>}

SymbolAtoms ==
    {<<"1">>, <<"8">>, <<"F">>, <<"0", "x">>, <<"0", "o">>, <<"_">>, <<"-">>, <<"t", "r", "u", "e">>, <<"n", "i", "l">>,
     <<"\\">>, <<"0", "3", "2">>, <<SOH>>}

SymbolTokens ==
    {prefix \o join(<<>>, atoms) :
        prefix \in SymbolPrefixes, atoms \in SeqsUpTo(SymbolAtoms, MaxSymbolAtoms)}

---------------------------------------------------------------------------
(* The run: main() under the try statement of __main__.                    *)

\* len(argv) == 2 and argv[1] == '--help'
help_requested(args) == Len(args) = 2 /\ args[2] = "--help"

\* A test that forbids every parameter but --help.
forbidden_parameters_any(args) == Len(args) >= 2

\* len(argv) > 2, the test of the elif
forbidden_parameters(args) == Len(args) > 2

Init(Args) ==
    /\ argv \in Args
    /\ pc = "main"
    /\ input = "none"
    /\ lines = <<>>
    /\ header_line_idx = -1
    /\ line_idx = 0
    /\ order = 0
    /\ instructions = <<>>
    /\ document = NoDocument
    /\ stdout = EmptyStdout
    /\ exc = NoException
    /\ exit_code = -1
    /\ sym_input = NoText
    /\ sym_outcome = Raised(NoException)

\* if len(argv) == 2 and argv[1] == '--help': print(HELP); return
PrintHelp ==
    /\ pc = "main"
    /\ help_requested(argv)
    /\ stdout' = [stdout EXCEPT !.help = TRUE]
    /\ pc' = "return"
    /\ UNCHANGED <<argv, input, lines, header_line_idx, line_idx, order,
                   instructions, document, exc, exit_code, sym_input, sym_outcome>>

\* elif len(argv) > 2: raise ParseError(..., 10)
ForbiddenParameters ==
    /\ pc = "main"
    /\ ~help_requested(argv)
    /\ forbidden_parameters(argv)
    /\ exc' = ParseError("Zakazana kombinace parametru", 10)
    /\ pc' = "raise"
    /\ UNCHANGED <<argv, input, lines, header_line_idx, line_idx, order,
                   instructions, document, stdout, exit_code, sym_input, sym_outcome>>

\* lines = fileinput.input(encoding='utf-8'): the FileInput object is
\* created and nothing is opened or read yet, so the call raises nothing.
OpenInput ==
    /\ pc = "main"
    /\ ~help_requested(argv)
    /\ ~forbidden_parameters(argv)
    /\ input' = "created"
    /\ pc' = "list"
    /\ UNCHANGED <<argv, lines, header_line_idx, line_idx, order, instructions,
                   document, stdout, exc, exit_code, sym_input, sym_outcome>>

\* list(lines): the source (standard input, or the file argv[1] names) is
\* opened, read and decoded; parse_program(...) then creates the
\* generator, which runs nothing before it is iterated.
ReadLines(Inputs) ==
    /\ pc = "list"
    /\ \E ls \in Inputs : lines' = ls
    /\ input' = "read"
    /\ pc' = "generator"
    /\ UNCHANGED <<argv, header_line_idx, line_idx, order, instructions,
                   document, stdout, exc, exit_code, sym_input, sym_outcome>>

\* list(lines) where the source cannot be opened, read or decoded: the
\* OSError or UnicodeDecodeError is raised outside the try statement of
\* fileinput.input and leaves main() as it is.
ReadFails ==
    /\ pc = "list"
    /\ input' = "failed"
    /\ exc' = OtherException("OSError")
    /\ pc' = "raise"
    /\ UNCHANGED <<argv, lines, header_line_idx, line_idx, order, instructions,
                   document, stdout, exit_code, sym_input, sym_outcome>>

\* instructions_to_xml creates the document and its root, then asks the
\* generator for its first item: parse_program runs find_header.
FindHeader ==
    /\ pc = "generator"
    /\ document' = NewDocument
    /\ header_line_idx' = find_header(lines)
    /\ IF header_line_idx' = -1
       THEN /\ exc' = ParseError("Chybna nebo chybejici hlavicka", 21)
            /\ pc' = "raise"
            /\ UNCHANGED <<order, line_idx>>
       ELSE /\ order' = 1
            /\ line_idx' = header_line_idx' + 1
            /\ pc' = "loop"
            /\ UNCHANGED exc
    /\ UNCHANGED <<argv, input, lines, instructions, stdout, exit_code,
                   sym_input, sym_outcome>>

\* One pass of the loop over lines[header_line_idx+1:], with the pass of
\* the loop of instructions_to_xml that takes what is yielded.
NextLine ==
    /\ pc = "loop"
    /\ line_idx <= Len(lines)
    /\ \E outcome \in {match_tokens(order, tokenize_line(lines[line_idx]))} :
           IF outcome.kind = "raise"
           THEN /\ exc' = outcome.exc
                /\ pc' = "raise"
                /\ UNCHANGED <<line_idx, order, instructions, document, stdout>>
           ELSE /\ line_idx' = line_idx + 1
                /\ order' = order_after(order, outcome)
                /\ IF outcome.kind = "yield"
                   THEN /\ instructions' = Append(instructions, outcome.instruction)
                        /\ document' = appendChild(document,
                                           instruction_element(outcome.instruction))
                        /\ stdout' = stdout_after_append(stdout,
                                           instruction_element(outcome.instruction))
                   ELSE UNCHANGED <<instructions, document, stdout>>
                /\ UNCHANGED <<exc, pc>>
    /\ UNCHANGED <<argv, input, lines, header_line_idx, exit_code,
                   sym_input, sym_outcome>>

\* The generator is exhausted: instructions_to_xml returns the document.
EndOfLines ==
    /\ pc = "loop"
    /\ line_idx > Len(lines)
    /\ pc' = "writexml"
    /\ UNCHANGED <<argv, input, lines, header_line_idx, line_idx, order,
                   instructions, document, stdout, exc, exit_code,
                   sym_input, sym_outcome>>

\* document.writexml(stdout, ...)
WriteXml ==
    /\ pc = "writexml"
    /\ stdout' = [stdout EXCEPT !.xml = TRUE, !.elements = document.elements]
    /\ pc' = "return"
    /\ UNCHANGED <<argv, input, lines, header_line_idx, line_idx, order,
                   instructions, document, exc, exit_code, sym_input, sym_outcome>>

\* document.writexml raises after it has written some part of the
\* document: raise ParseError(str(err), 12).
WriteFails ==
    /\ pc = "writexml"
    /\ \E n \in 0..Len(document.elements), started \in BOOLEAN :
          /\ n > 0 => started
          /\ stdout' = [stdout EXCEPT !.xml = started,
                                      !.elements = Upto(document.elements, n)]
    /\ exc' = ParseError("writexml", 12)
    /\ pc' = "raise"
    /\ UNCHANGED <<argv, input, lines, header_line_idx, line_idx, order,
                   instructions, document, exit_code, sym_input, sym_outcome>>

\* The code handed to exit() for an exception that left main().
exit_code_of(e) ==
    IF e.type \in {"ParseError", "SourceError"} THEN e.exit_code ELSE 99

\* except ParseError: exit(err.exit_code); except Exception: exit(99);
\* else: exit(0)
Exit ==
    /\ pc \in {"return", "raise"}
    /\ exit_code' = IF pc = "return" THEN 0 ELSE exit_code_of(exc)
    /\ pc' = "exit"
    /\ UNCHANGED <<argv, input, lines, header_line_idx, line_idx, order,
                   instructions, document, stdout, exc, sym_input, sym_outcome>>

Run(Inputs) ==
    \/ PrintHelp
    \/ ForbiddenParameters
    \/ OpenInput
    \/ ReadLines(Inputs)
    \/ ReadFails
    \/ FindHeader
    \/ NextLine
    \/ EndOfLines
    \/ WriteXml
    \/ WriteFails
    \/ Exit

---------------------------------------------------------------------------
(* The specifications.                                                     *)

Next == Run(ProgramInputs)

Spec == Init(AllArgv) /\ [][Next]_vars

NextOrder == Run(OrderInputs)

SpecOrder == Init(StdinArgv) /\ [][NextOrder]_vars

NextLineForms == Run(LineInputs)

SpecLine == Init(StdinArgv) /\ [][NextLineForms]_vars

NextHeaderForms == Run(HeaderInputs)

SpecHeader == Init(StdinArgv) /\ [][NextHeaderForms]_vars

\* parse_symbol applied to one token.
InitSymbol ==
    /\ argv = <<PROGRAM>>
    /\ pc = "parse_symbol"
    /\ input = "none"
    /\ lines = <<>>
    /\ header_line_idx = -1
    /\ line_idx = 0
    /\ order = 0
    /\ instructions = <<>>
    /\ document = NoDocument
    /\ stdout = EmptyStdout
    /\ exc = NoException
    /\ exit_code = -1
    /\ sym_input \in SymbolTokens
    /\ sym_outcome = Raised(NoException)

CallParseSymbol ==
    /\ pc = "parse_symbol"
    /\ sym_outcome' = parse_symbol(sym_input)
    /\ pc' = "parse_symbol_done"
    /\ UNCHANGED <<argv, input, lines, header_line_idx, line_idx, order,
                   instructions, document, stdout, exc, exit_code, sym_input>>

NextSymbol == CallParseSymbol

SpecSymbol == InitSymbol /\ [][NextSymbol]_vars

---------------------------------------------------------------------------
(* The vocabulary of the properties.                                       *)

\* The line without its newline.
Body(line) ==
    IF line /= <<>> /\ line[Len(line)] = "\n" THEN Upto(line, Len(line) - 1) ELSE line

\* The part of a line before its comment: the characters that no '#'
\* precedes.
BeforeComment(line) ==
    SelectSeq([i \in 1..Len(line) |->
                  IF \E j \in 1..i : line[j] = "#" THEN "#" ELSE line[i]],
              LAMBDA c : c /= "#")

\* A line that yields no token: all whitespace before its comment.
YieldsNothing(line) == \A i \in 1..Len(BeforeComment(line)) :
                          BeforeComment(line)[i] \in PyWhitespace

\* The indices of `ls` after h, up to `last`, of the lines that yield tokens.
TokenLines(ls, h, last) == {i \in (h + 1)..last : ~YieldsNothing(ls[i])}

\* The k-th smallest member of a set of numbers.
Kth(S, k) == CHOOSE i \in S : Cardinality({j \in S : j <= i}) = k

\* The run has parsed every line without error.
AcceptedInFull == input = "read" /\ pc \in {"writexml", "return", "exit"}
                  /\ exc.exit_code \notin {21, 22, 23}

\* The declared signature of an opcode: one of the eight operand shapes.
Recognized ==
    CaseNoOperand \cup CaseLabel \cup CaseVarSymb \cup CaseVarSymbSymb \cup
    CaseSymb \cup CaseVar \cup CaseVarType \cup CaseLabelSymbSymb

Signature(opcode) ==
    CASE opcode \in CaseNoOperand     -> <<>>
      [] opcode \in CaseLabel         -> <<"label">>
      [] opcode \in CaseVarSymb       -> <<"var", "symb">>
      [] opcode \in CaseVarSymbSymb   -> <<"var", "symb", "symb">>
      [] opcode \in CaseSymb          -> <<"symb">>
      [] opcode \in CaseVar           -> <<"var">>
      [] opcode \in CaseVarType       -> <<"var", "type">>
      [] opcode \in CaseLabelSymbSymb -> <<"label", "symb", "symb">>

\* The validator of an operand kind, applied to a token.
Validate(kind, token) ==
    CASE kind = "label" -> parse_label(token)
      [] kind = "var"   -> parse_variable(token)
      [] kind = "symb"  -> parse_symbol(token)
      [] kind = "type"  -> parse_type(token)

\* The exception a line's tokens raise: by opcode, then by operand count,
\* then by the leftmost operand its validator rejects; NoException when
\* the line is accepted or empty.
OperandErrors(tokens) ==
    {j \in 1..Len(Signature(tokens[1])) :
        ~Validate(Signature(tokens[1])[j], tokens[j + 1]).ok}

TokensError(tokens) ==
    IF tokens = <<>> THEN NoException
    ELSE IF tokens[1] \notin Recognized
    THEN ParseError("Neznamy nebo chybny operacni kod", 22)
    ELSE IF Len(tokens) - 1 /= Len(Signature(tokens[1]))
    THEN SourceError("Spatny pocet argumentu")
    ELSE IF OperandErrors(tokens) = {} THEN NoException
    ELSE Validate(Signature(tokens[1])[Min(OperandErrors(tokens))],
                  tokens[Min(OperandErrors(tokens)) + 1]).exc

LineError(line) == TokensError(tokenize_line(line))

\* The lines after the header that raise.
FailingLines(ls, h) == {i \in (h + 1)..Len(ls) : LineError(ls[i]) /= NoException}

\* The generator has run find_header on the lines read.
HeaderScanned == input = "read" /\ pc \notin {"main", "list", "generator"}

---------------------------------------------------------------------------
(* C1: the order numbers of an accepted program.                           *)

\* C1: for every input that parse_program accepts in full, the k-th
\* instruction it yields has order = k and comes from the k-th line after
\* the header that holds a token, however many blank or comment-only lines
\* lie before the header, between the header and it, or between
\* instructions; while the generator runs, the instructions yielded so far
\* are numbered 1, 2, ... without gap or repeat.
C1_OrderIsPosition ==
    /\ \A k \in 1..Len(instructions) : instructions[k].order = k
    /\ AcceptedInFull =>
         /\ Len(instructions) = Cardinality(TokenLines(lines, header_line_idx, Len(lines)))
         /\ \A k \in 1..Len(instructions) :
               instructions[k].opcode =
                  tokenize_line(lines[Kth(TokenLines(lines, header_line_idx, Len(lines)), k)])[1]

\* An accepted program of two instructions with a blank or comment-only
\* line before the header, one between the header and the first
\* instruction and one between the two instructions.
C1_Witness ==
    /\ pc = "exit"
    /\ exit_code = 0
    /\ Len(instructions) = 2
    /\ header_line_idx > 1
    /\ \E a, b, c, d \in 1..Len(lines) :
          /\ header_line_idx < a /\ a < b /\ b < c /\ c < d
          /\ YieldsNothing(lines[a]) /\ ~YieldsNothing(lines[b])
          /\ YieldsNothing(lines[c]) /\ ~YieldsNothing(lines[d])

---------------------------------------------------------------------------
(* C2: the header scan.                                                    *)

\* Inline whitespace: whitespace that ends no line.
IsInline(c) == c \in {" ", "\t", "\f"}

\* Blank or comment-only: inline whitespace, then nothing or a comment.
BlankOrCommentOnly(line) ==
    \E k \in 0..Len(Body(line)) :
        /\ \A i \in 1..k : IsInline(Body(line)[i])
        /\ k = Len(Body(line)) \/ Body(line)[k + 1] = "#"

\* A well-formed header line: inline whitespace, the header, inline
\* whitespace, then nothing or a comment.
WellFormedHeader(line) ==
    \E a \in 0..Len(Body(line)), b \in 0..Len(Body(line)) :
        /\ a + Len(HEADER) + b <= Len(Body(line))
        /\ \A i \in 1..a : IsInline(Body(line)[i])
        /\ SubSeq(Body(line), a + 1, a + Len(HEADER)) = HEADER
        /\ \A i \in (a + Len(HEADER) + 1)..(a + Len(HEADER) + b) : IsInline(Body(line)[i])
        /\ \/ a + Len(HEADER) + b = Len(Body(line))
           \/ Body(line)[a + Len(HEADER) + b + 1] = "#"

\* The lines that are neither blank nor comment-only.
ContentLines(ls) == {i \in 1..Len(ls) : ~BlankOrCommentOnly(ls[i])}

HeaderIsFirstContent(ls) ==
    /\ ContentLines(ls) /= {}
    /\ WellFormedHeader(ls[Min(ContentLines(ls))])

\* C2: once the header scan has run, if the first line that is neither
\* blank nor comment-only is a well-formed header line, header_line_idx is
\* that line's index, no Header error is raised and the loop takes the
\* lines after it (an accepted run yields one instruction for each of them
\* that holds a token); if the first such line is anything else, or there is no
\* such line, the run raises the Header error, yields no instruction and
\* exits with code 21.
C2_HeaderScan ==
    HeaderScanned =>
        IF HeaderIsFirstContent(lines)
        THEN /\ header_line_idx = Min(ContentLines(lines))
             /\ exc.exit_code /= 21
             /\ line_idx > header_line_idx
             /\ Len(instructions) <=
                   Cardinality(TokenLines(lines, header_line_idx, Len(lines)))
             /\ AcceptedInFull =>
                   Len(instructions) =
                      Cardinality(TokenLines(lines, header_line_idx, Len(lines)))
        ELSE /\ header_line_idx = -1
             /\ exc = ParseError("Chybna nebo chybejici hlavicka", 21)
             /\ instructions = <<>>
             /\ pc \in {"raise", "exit"}
             /\ pc = "exit" => exit_code = 21

\* A header with inline whitespace and a comment, after a blank or
\* comment-only line, was accepted and the line after it was parsed.
C2_Witness ==
    /\ pc = "exit"
    /\ exit_code = 0
    /\ header_line_idx = 2
    /\ Body(lines[2]) /= HEADER
    /\ Len(instructions) = 1
    /\ instructions[1].order = 1

---------------------------------------------------------------------------
(* C3: unknown opcode or wrong operand count.                              *)

\* The loop has dealt with line i: it has gone past it, or it raised there.
LineDone(i) ==
    /\ HeaderScanned
    /\ header_line_idx /= -1
    /\ \/ line_idx > i
       \/ line_idx = i /\ pc \in {"raise", "exit"}

\* C3: for every line after the header that holds a token, once the loop
\* has dealt with it: if the upper-cased first token is no recognized
\* opcode the line raised the Opcode error (exit code 22), whatever the
\* number of tokens; if it is a recognized opcode with another number of
\* operands than its signature has, the line raised the Syntax error for
\* the operand count (exit code 23); so code 22 is raised only for an
\* unknown opcode and never for a recognized one.
C3_OpcodeThenArity ==
    \A i \in 1..Len(lines) :
        (LineDone(i) /\ i > header_line_idx /\ tokenize_line(lines[i]) /= <<>>) =>
            /\ tokenize_line(lines[i])[1] \notin Recognized =>
                  /\ line_idx = i
                  /\ exc = ParseError("Neznamy nebo chybny operacni kod", 22)
                  /\ pc = "exit" => exit_code = 22
            /\ /\ tokenize_line(lines[i])[1] \in Recognized
               /\ Len(tokenize_line(lines[i])) - 1 /=
                     Len(Signature(tokenize_line(lines[i])[1]))
               => /\ line_idx = i
                  /\ exc = SourceError("Spatny pocet argumentu")
                  /\ pc = "exit" => exit_code = 23
            /\ (line_idx = i /\ exc.exit_code = 22) =>
                  tokenize_line(lines[i])[1] \notin Recognized

\* An unknown opcode written with three operands ended the run with 22.
C3_Witness ==
    /\ pc = "exit"
    /\ exit_code = 22
    /\ line_idx = 2
    /\ Len(tokenize_line(lines[2])) = 4
    /\ tokenize_line(lines[2])[1] \notin Recognized

---------------------------------------------------------------------------
(* C6: the operands of a yielded instruction.                              *)

\* The line of `ls` the k-th yielded instruction comes from.
SourceLine(k) == Kth(TokenLines(lines, header_line_idx, Len(lines)), k)

\* C6: every Instruction yielded has at most 3 arguments, its opcode is a
\* recognized one, it has as many arguments as the opcode's signature has
\* operands, and the argument at each position is what the validator of
\* that position's kind returns for the operand token at that position.
C6_ArgumentsMatchSignature ==
    \A k \in 1..Len(instructions) :
        /\ Len(instructions[k].args) <= 3
        /\ instructions[k].opcode \in Recognized
        /\ Len(instructions[k].args) = Len(Signature(instructions[k].opcode))
        /\ Len(instructions[k].args) = Len(tokenize_line(lines[SourceLine(k)])) - 1
        /\ \A j \in 1..Len(instructions[k].args) :
              /\ Validate(Signature(instructions[k].opcode)[j],
                          tokenize_line(lines[SourceLine(k)])[j + 1]).ok
              /\ instructions[k].args[j] =
                    Validate(Signature(instructions[k].opcode)[j],
                             tokenize_line(lines[SourceLine(k)])[j + 1]).arg

\* A READ instruction was yielded with its variable and its type name.
C6_Witness ==
    /\ Len(instructions) = 1
    /\ instructions[1].opcode = <<"R", "E", "A", "D">>
    /\ Len(instructions[1].args) = 2
    /\ pc = "exit"

---------------------------------------------------------------------------
(* C9: the first error decides the run.                                    *)

\* C9: once the header scan has run on the lines read: with no accepted
\* header the run raises the Header error (code 21) whatever the lines
\* hold; with an accepted header and failing lines the loop never goes
\* past the first failing line in file order, and when the run has raised
\* there the exception is that line's (by opcode, then operand count, then
\* its leftmost rejected operand), the instructions yielded are those of
\* the token lines before it, the counter stands at the next free number,
\* and the exit code is the exception's.
C9_FirstErrorWins ==
    HeaderScanned =>
        IF find_header(lines) = -1
        THEN /\ exc = ParseError("Chybna nebo chybejici hlavicka", 21)
             /\ instructions = <<>>
             /\ pc = "exit" => exit_code = 21
        ELSE IF FailingLines(lines, header_line_idx) = {}
        THEN exc.exit_code \notin {21, 22, 23}
        ELSE /\ line_idx <= Min(FailingLines(lines, header_line_idx))
             /\ pc \notin {"writexml", "return"}
             /\ pc \in {"raise", "exit"} =>
                   /\ line_idx = Min(FailingLines(lines, header_line_idx))
                   /\ exc = LineError(lines[line_idx])
                   /\ Len(instructions) =
                         Cardinality(TokenLines(lines, header_line_idx, line_idx - 1))
                   /\ order = Len(instructions) + 1
             /\ pc = "exit" => exit_code = exc.exit_code

\* A run ended by a line with two rejected operands, the variable first,
\* that an unknown opcode follows: the exception is the variable's.
C9_Witness ==
    /\ pc = "exit"
    /\ exit_code = 23
    /\ exc = SourceError("Promenna ve spatnem formatu")
    /\ Cardinality(OperandErrors(tokenize_line(lines[line_idx]))) = 2
    /\ line_idx < Len(lines)
    /\ LineError(lines[line_idx + 1]).exit_code = 22

---------------------------------------------------------------------------
(* C4: no partial output.                                                  *)

\* C4: in every state of a run that has raised a Header, Opcode or Syntax
\* error nothing has been written to standard output, whatever was yielded
\* before; and whenever anything of the XML document is on standard output
\* the header was accepted and every line of the input was parsed without
\* error.
C4_NoPartialOutput ==
    /\ exc.exit_code \in {21, 22, 23} => stdout = EmptyStdout
    /\ (stdout.xml \/ stdout.elements /= <<>>) =>
          /\ input = "read"
          /\ header_line_idx /= -1
          /\ line_idx = Len(lines) + 1
          /\ FailingLines(lines, header_line_idx) = {}
          /\ pc \in {"return", "raise", "exit"}
          /\ exc.exit_code \in {0, 12}

\* A run that yielded an instruction, then raised on a later line and
\* exited with nothing written.
C4_Witness ==
    /\ pc = "exit"
    /\ exit_code \in {22, 23}
    /\ Len(instructions) >= 1
    /\ document.elements /= <<>>
    /\ stdout = EmptyStdout

---------------------------------------------------------------------------
(* C5: the type attribute of the argument elements.                        *)

\* The kind tag the type attribute is to carry for an operand of `kind`
\* whose element has type attribute `type`.
KindTagOk(kind, type) ==
    CASE kind = "var"   -> type = <<"v", "a", "r", "i", "a", "b", "l", "e">>
      [] kind = "label" -> type = <<"l", "a", "b", "e", "l">>
      [] kind = "type"  -> type = <<"t", "y", "p", "e">>
      [] kind = "symb"  -> type \in {<<"i", "n", "t">>, <<"b", "o", "o", "l">>, <<"s", "t", "r", "i", "n", "g">>, <<"n", "i", "l">>, <<"v", "a", "r", "i", "a", "b", "l", "e">>}

\* C5: in the document written to standard output every argument
\* element's type attribute is the kind tag of its operand: `variable` for
\* a variable, `label` for a label, `type` for a type name, and the
\* literal's type name (`int`, `bool`, `string`, `nil`) for a literal.
C5_TypeAttributeIsKindTag ==
    \A k \in 1..Len(stdout.elements) :
        \A j \in 1..Len(stdout.elements[k].children) :
            KindTagOk(Signature(stdout.elements[k].opcode)[j],
                      stdout.elements[k].children[j].type)

---------------------------------------------------------------------------
(* C7: the command line.                                                   *)

---------------------------------------------------------------------------
(* C8: the exit codes.                                                     *)

\* C8: every run that has ended has one exit code of the taxonomy 0, 10,
\* 11, 12, 21, 22, 23, 99, and a run whose input could not be opened, read
\* or decoded has exit code 11.
C8_ReadFailureExits11 ==
    pc = "exit" =>
        /\ exit_code \in {0, 10, 11, 12, 21, 22, 23, 99}
        /\ input = "failed" => exit_code = 11

---------------------------------------------------------------------------
(* C10: the dispatch of parse_symbol.                                      *)

StartsWithAny(token, prefixes) == \E p \in prefixes : startswith(token, p)

LiteralTags == {<<"i", "n", "t">>, <<"b", "o", "o", "l">>, <<"s", "t", "r", "i", "n", "g">>, <<"n", "i", "l">>}

FrameTags == {<<"G", "F">>, <<"L", "F">>, <<"T", "F">>}

LiteralMessages ==
    {"Konstanta ve spatnem formatu",
     "Celociselna konstanta ve spatnem formatu",
     "Booleanska konstanta ve spatnem formatu",
     "Retezcova konstanta ve spatnem formatu",
     "Nil konstanta ve spatnem formatu"}

\* Digits of one base in groups that single underscores separate.
DigitGroups(body, digits) ==
    /\ body /= <<>>
    /\ \A i \in 1..Len(body) :
          \/ body[i] \in digits
          \/ /\ body[i] = "_"
             /\ 1 < i /\ i < Len(body)
             /\ body[i - 1] \in digits /\ body[i + 1] \in digits

\* A signed integer in decimal, or in the base its prefix names.
IntegerText(v) ==
    \E sign \in {<<>>, <<"+">>, <<"-">>} :
        /\ startswith(v, sign)
        /\ \/ DigitGroups(From(v, Len(sign) + 1), DecDigits)
           \/ \E x \in {"x", "X"}, u \in {<<>>, <<"_">>} :
                 /\ startswith(From(v, Len(sign) + 1), <<"0", x>> \o u)
                 /\ DigitGroups(From(v, Len(sign) + 3 + Len(u)), HexDigits)
           \/ \E o \in {"o", "O"}, u \in {<<>>, <<"_">>} :
                 /\ startswith(From(v, Len(sign) + 1), <<"0", o>> \o u)
                 /\ DigitGroups(From(v, Len(sign) + 3 + Len(u)), OctDigits)

\* No whitespace, control character or '#', and every backslash followed
\* by three decimal digits.
EscapedText(v) ==
    \A i \in 1..Len(v) :
        /\ v[i] \notin ExcludedChars \ {"\\"}
        /\ v[i] = "\\" =>
              /\ i + 3 <= Len(v)
              /\ \A n \in (i + 1)..(i + 3) : v[n] \in DecDigits

WellFormedLiteral(token) ==
    \/ startswith(token, <<"i", "n", "t", "@">>) /\ IntegerText(From(token, 5))
    \/ token \in {<<"b", "o", "o", "l", "@", "t", "r", "u", "e">>, <<"b", "o", "o", "l", "@", "f", "a", "l", "s", "e">>}
    \/ startswith(token, <<"s", "t", "r", "i", "n", "g", "@">>) /\ EscapedText(From(token, 8))
    \/ token = <<"n", "i", "l", "@", "n", "i", "l">>

WellFormedVariable(token) ==
    /\ Len(token) >= 4
    /\ StartsWithAny(token, {f \o <<"@">> : f \in FrameTags})
    /\ token[4] \in Letters \cup IdentSpecials
    /\ \A i \in 5..Len(token) : token[i] \in Letters \cup DecDigits \cup IdentSpecials

\* C10: for every token handed to parse_symbol: if it starts with int,
\* bool, string or nil it is accepted exactly when it is a well-formed
\* typed literal, as the literal of that type and value, and is otherwise
\* rejected with one of the literal validator's errors; otherwise, if it
\* starts with GF, LF or TF it is accepted exactly when it is a well-formed
\* variable and is otherwise rejected with the variable validator's error;
\* otherwise it is rejected as an ill-formed symbol.  Every rejection is a
\* SourceError, whose exit code is 23, and every accepted symbol is a
\* well-formed literal or a well-formed variable.
C10_SymbolDispatch ==
    pc = "parse_symbol_done" =>
        /\ IF StartsWithAny(sym_input, LiteralTags)
           THEN IF WellFormedLiteral(sym_input)
                THEN /\ sym_outcome.ok
                     /\ sym_outcome.arg.ipptype \in LiteralTags
                     /\ sym_outcome.arg.ipptype \o <<"@">> \o sym_outcome.arg.text = sym_input
                ELSE /\ ~sym_outcome.ok
                     /\ sym_outcome.exc.message \in LiteralMessages
           ELSE IF StartsWithAny(sym_input, FrameTags)
           THEN IF WellFormedVariable(sym_input)
                THEN sym_outcome = Returned(Argument(<<"v", "a", "r">>, sym_input))
                ELSE sym_outcome = Raised(SourceError("Promenna ve spatnem formatu"))
           ELSE sym_outcome = Raised(SourceError("Symbol ve spatnem formatu"))
        /\ ~sym_outcome.ok =>
              /\ sym_outcome.exc.type = "SourceError"
              /\ exit_code_of(sym_outcome.exc) = 23
        /\ sym_outcome.ok => WellFormedLiteral(sym_input) \/ WellFormedVariable(sym_input)

\* A token that starts with a literal tag and with a frame prefix after
\* it, rejected by the literal validator with its own error.
C10_Witness ==
    /\ pc = "parse_symbol_done"
    /\ startswith(sym_input, <<"n", "i", "l", "G", "F", "@">>)
    /\ WellFormedVariable(From(sym_input, 4))
    /\ ~sym_outcome.ok
    /\ sym_outcome.exc = SourceError("Konstanta ve spatnem formatu")

=============================================================================
